---- MODULE Spec2Model ----
(***************************************************************************)
(* Patient flow of HospitalSimulation (src/simulation.py, identical class  *)
(* in src/Assignment_4.py) driven by the simpy event loop, as started by   *)
(* run_simulation and repeated by collect_samples (src/Assignment_3.py).   *)
(*                                                                         *)
(* The simpy kernel is modelled at the granularity of its event heap: one  *)
(* action per event processed by Environment.step().  Events are ordered   *)
(* by (time, priority, insertion order); Initialize events of new          *)
(* processes are URGENT, every other event is NORMAL.  A request that can  *)
(* be served is put into `users` at once and its success event is put on   *)
(* the heap; a release removes the user at once and its own event, when    *)
(* processed, serves the head of the waiting list.                         *)
(*                                                                         *)
(* The specifications:                                                     *)
(*   Spec        one replication, env.run(until=Duration);                 *)
(*   ReplaySpec  two replications in a row with the same configuration and *)
(*               seed, each env.run(until=ReplayDuration);                 *)
(*   MonitorSpec one replication with Monitor.monitor_queues running;      *)
(*   LiveSpec    one replication with no horizon, env.run().  There the    *)
(*               clock is kept relative to the current instant, patient    *)
(*               records are reused after discharge and the measurements   *)
(*               are not kept, so that the unbounded run has finitely many *)
(*               states;                                                   *)
(*   BlockingSpec one replication of up to MaxArrivals arrivals and the    *)
(*               call of Monitor.calculate_blocking_probability;           *)
(*   StatsSpec   the statistics functions of src/analysis.py and           *)
(*               src/Assignment_4.py called on their own;                  *)
(*   ScriptSpec  the script src/Assignment_2.py, with its own              *)
(*               HospitalSimulation, from a config.json that may lack a    *)
(*               key or hold a value that is not positive.                 *)
(***************************************************************************)
EXTENDS Integers, Sequences, FiniteSets, TLC

\* ------------------------------------------------------------------ bounds
MaxPatients    == 3     \* Spec, ReplaySpec: the generator stops after this many arrivals
Duration       == 8     \* Spec: env.run(until=Duration)
ReplayDuration == 5     \* ReplaySpec: env.run(until=ReplayDuration)
MaxSlots       == 4     \* LiveSpec: patients in the hospital at the same time
MaxLen         == 3     \* StatsSpec: length of the data handed to the statistics
MaxLag         == 3     \* StatsSpec: lag handed to calculate_serial_correlation
MaxArrivals    == 4     \* BlockingSpec: the generator stops after this many arrivals
ScriptDuration == 6     \* ScriptSpec: SIMULATION_TIME of a valid config.json

\* ------------------------------------------------------- program constants
TheaterCapacity == 1    \* simpy.Resource(env, 1)
URGENT == 0             \* priority of Initialize events and of the until event
NORMAL == 1             \* priority of every other event
EMERGENCY == 0          \* priority = 0 if random.random() < 0.2
GENERAL == 1            \* else 1
None == -1              \* Python's None
SnapshotInterval == 5   \* yield self.env.timeout(5) of Assignment_2's monitor_queues

\* ----------------------------------------------------- inputs of one run
NumPrepChoices     == {1, 2}     \* num_prep
NumRecoveryChoices == {1, 2}     \* num_recovery
WarmUpChoices      == {2}        \* warm_up
SampleIntervals    == {2, 3}     \* interval of monitor_queues
SampleValues       == {0, 1}     \* the numbers in data
Lags               == 0 .. MaxLag    \* lag
MonitorSeeds       == {1}        \* seed of the monitored run
Seeds              == 0 .. 3     \* seed
InterarrivalTimes  == {1, 2}     \* values of next(interarrival_dist)
PrepTimes          == {1, 2}     \* values of next(prep_time_dist)
OperationTimes     == {1, 2}     \* values of np.random.exponential(20)
RecoveryTimes      == {1, 3}     \* values of next(recovery_time_dist)
\* with no horizon: a run where preparation is the bottleneck, and a run where
\* the theater and the recovery unit are
LiveRuns ==
    { [num_prep |-> 1, num_recovery |-> 1, interarrival |-> {1, 2},
       prep |-> {2}, operation |-> {1}, recovery |-> {1}],
      [num_prep |-> 2, num_recovery |-> 1, interarrival |-> {1, 2},
       prep |-> {2}, operation |-> {2}, recovery |-> {3}] }

Pools == {"preparation", "operating_theater", "recovery"}
\* the keys of queue_lengths
Stages == {"preparation", "operation", "recovery"}

VARIABLES
    now,                    \* env.now
    events,                 \* the event heap of the environment, in pop order
    pools,                  \* pool name -> [users, queue] of the simpy resource
    num_prep,               \* capacity of self.preparation
    num_recovery,           \* capacity of self.recovery
    warm_up,                \* argument of generate_patients
    interarrival_dist,      \* self.interarrival_dist: the values the generator yields
    prep_time_dist,         \* self.prep_time_dist: the values the generator yields
    recovery_time_dist,     \* self.recovery_time_dist: the values the generator yields
    operation_times,        \* the values np.random.exponential(20) yields in this run
    seed,                   \* argument of random.seed; None: seeded from the system
    until,                  \* argument of env.run; None: no horizon
    rnd_calls,              \* number of random.random() calls since random.seed
    patient_id,             \* local of generate_patients
    priority,               \* local of generate_patients
    priority_drawn,         \* history: priority was set by the random.random() branch
    patient_priority,       \* priority argument of each patient_lifecycle
    theater_busy_start,     \* self.theater_busy_start
    theater_blocked_times,  \* self.theater_blocked_times
    running,                \* env.run has not returned
    replication,            \* index of the current run_simulation call
    log,                    \* history: per patient, the stage events so far
    drawn,                  \* history: per patient, priority came from random.random()
    op_done,                \* history: per patient, the recovery pool at operation end
    block_log,              \* history: per entry of theater_blocked_times, who and when
    prev_log,               \* history: log at the end of the previous replication
    prev_blocked,           \* history: theater_blocked_times of the previous replication
    interval,               \* argument of monitor_queues; None: no monitor process
    queue_lengths,          \* self.hospital.queue_lengths
    samples,                \* history: per sample, its time and who waited where
    data,                   \* argument of the statistics functions
    lag,                    \* argument of calculate_serial_correlation
    call,                   \* the statistics function that was called, "none" before
    outcome,                \* what the call returned or raised
    num_operating_theater,  \* capacity of self.operating_theater
    cfg,                    \* Assignment_2: the content of config.json
    pc,                     \* Assignment_2: the part of the script that runs next
    error,                  \* Assignment_2: the exception that ended the script
    times,                  \* Assignment_2: per patient, the locals of patient_lifecycle
    theater_busy_times,     \* Assignment_2: self.theater_busy_times
    time_snapshots,         \* Assignment_2: self.time_snapshots
    arrivals                \* the number of arrivals after which the model stops the generator

vars == <<now, events, pools, num_prep, num_recovery, warm_up, interarrival_dist,
          prep_time_dist, recovery_time_dist, operation_times, seed, until, rnd_calls,
          patient_id, priority, priority_drawn, patient_priority, theater_busy_start,
          theater_blocked_times, running, replication, log, drawn, op_done,
          block_log, prev_log, prev_blocked, interval, queue_lengths, samples,
          data, lag, call, outcome, num_operating_theater, cfg, pc, error, times,
          theater_busy_times, time_snapshots, arrivals>>

config == <<num_prep, num_operating_theater, num_recovery, warm_up, interarrival_dist, prep_time_dist,
            recovery_time_dist, operation_times, seed, until, interval, arrivals>>
replay == <<replication, prev_log, prev_blocked>>
monitor == <<queue_lengths, samples>>
stats == <<data, lag, call, outcome>>
script == <<cfg, pc, error, times, theater_busy_times, time_snapshots>>
\* what no process of the hospital writes
aside == <<monitor, stats, script>>
\* what the statistics functions do not touch
simulation == <<now, events, pools, config, rnd_calls, patient_id, priority,
                priority_drawn, patient_priority, theater_busy_start,
                theater_blocked_times, running, log, drawn, op_done, block_log,
                replay, monitor, script>>

\* env.run() without until: the run never returns, see the header
Unbounded == until = None

Patients == IF Unbounded THEN 0 .. (MaxSlots - 1) ELSE 0 .. (arrivals - 1)

\* ------------------------------------------------------------ event heap
Event(t, prio, kind, p) == [time |-> t, prio |-> prio, kind |-> kind, pid |-> p]

\* the slip of a heap keyed by priority alone
BeforeByPriority(e, ev) == e.prio <= ev.prio

\* heapq order on (time, priority, eid): e stays ahead of a later insertion ev
Before(e, ev) == \/ e.time < ev.time
                 \/ e.time = ev.time /\ e.prio <= ev.prio

\* heappush: ev goes behind the events that stay ahead of it
Insert(q, ev) ==
    LET k == Cardinality({i \in 1 .. Len(q) : Before(q[i], ev)})
    IN  SubSeq(q, 1, k) \o <<ev>> \o SubSeq(q, k + 1, Len(q))

\* Environment.schedule (the heap q is evaluated once, then inserted into)
Schedule(q, ev) == CHOOSE r \in {Insert(qv, ev) : qv \in {q}} : TRUE

\* The event Environment.step() pops next, its time and its process
IsNext(kind) == running /\ events # <<>> /\ Head(events).kind = kind
T == Head(events).time
Pid == Head(events).pid

\* Environment.step sets env._now to the time of the event it pops
Clock == IF Unbounded THEN 0 ELSE T
Rebase(q) == IF Unbounded THEN [i \in 1 .. Len(q) |-> [q[i] EXCEPT !.time = @ - T]]
                          ELSE q
Step(q) == \E qv \in {q} : now' = Clock /\ events' = Rebase(qv)

\* ------------------------------------------------------------ resources
\* the slip of giving preparation the recovery capacity and the reverse
CapacitySwapped(pool) ==
    CASE pool = "preparation"       -> num_recovery
      [] pool = "operating_theater" -> num_operating_theater
      [] pool = "recovery"          -> num_prep

\* PriorityResource(env, num_prep), Resource(env, 1), Resource(env, num_recovery)
Capacity(pool) ==
    CASE pool = "preparation"       -> num_prep
      [] pool = "operating_theater" -> num_operating_theater
      [] pool = "recovery"          -> num_recovery

GrantKind(pool) ==
    CASE pool = "preparation"       -> "PrepGrant"
      [] pool = "operating_theater" -> "OpGrant"
      [] pool = "recovery"          -> "RecGrant"

ReleaseKind(pool) ==
    CASE pool = "preparation"       -> "PrepRelease"
      [] pool = "operating_theater" -> "OpRelease"
      [] pool = "recovery"          -> "RecRelease"

\* a request and the time in its sort key (requests are made in time order, so
\* the relative clock keeps the key at 0 and leaves the order to the stable sort)
Request(p, prio) == [pid |-> p, priority |-> prio, time |-> Clock]

\* SortedQueue.append of a PriorityRequest with key (priority, time): a stable sort
KeyBefore(r, new) == \/ r.priority < new.priority
                     \/ r.priority = new.priority /\ r.time <= new.time

SortedAppend(q, r) ==
    LET k == Cardinality({i \in 1 .. Len(q) : KeyBefore(q[i], r)})
    IN  SubSeq(q, 1, k) \o <<r>> \o SubSeq(q, k + 1, Len(q))

\* the slip of a plain Resource for preparation: arrival order only
EnqueueFifo(pool, q, r) == Append(q, r)

\* the slip of a PriorityResource, asked with the patient's class, for every pool
EnqueueByClass(pool, q, r) ==
    SortedAppend(q, [r EXCEPT !.priority = patient_priority[r.pid]])

\* put_queue.append of the request: sorted for the PriorityResource, FIFO otherwise
Enqueue(pool, q, r) ==
    IF pool = "preparation" THEN SortedAppend(q, r) ELSE Append(q, r)

\* Resource._do_put on the head of the waiting list
CanPut(pool, st) ==
    st.queue # <<>> /\ Cardinality(st.users) < Capacity(pool)

\* BaseResource._trigger_put: the head is served if a unit is free, and only the head
TriggerPut(pool, st) ==
    IF CanPut(pool, st)
    THEN [users |-> st.users \cup {Head(st.queue).pid}, queue |-> Tail(st.queue)]
    ELSE st

\* the success event of the request served by TriggerPut, if any
GrantEvents(pool, st, q) ==
    IF CanPut(pool, st)
    THEN Schedule(q, Event(T, NORMAL, GrantKind(pool), Head(st.queue).pid))
    ELSE q

\* Resource._do_get: the releasing request leaves users at once
DoGet(st, p) == [st EXCEPT !.users = @ \ {p}]

\* ------------------------------------------------------------ randomness
\* random.random() < 0.2 for the k-th call after random.seed(s)
PyRandomBelow(s, k) == (s \div (2 ^ k)) % 2 = 1

Stamp(p, what) == [log EXCEPT ![p] = Append(@, [ev |-> what, at |-> Clock])]

\* ------------------------------------------------------------------ Init
\* HospitalSimulation.__init__, env.process(generate_patients), env.run(until):
\* the state a replication starts in
Fresh ==
    [events |-> IF Unbounded
                THEN <<Event(0, URGENT, "GenInit", None)>>
                ELSE IF interval = None
                THEN <<Event(0, URGENT, "GenInit", None),
                       Event(until, URGENT, "Stop", None)>>
                ELSE <<Event(0, URGENT, "GenInit", None),
                       Event(0, URGENT, "Sample", None),
                       Event(until, URGENT, "Stop", None)>>,
     queue_lengths |-> [stage \in Stages |-> <<>>],
     pools  |-> [r \in Pools |-> [users |-> {}, queue |-> <<>>]],
     patient_priority |-> [p \in Patients |-> None],
     log    |-> [p \in Patients |-> <<>>],
     drawn  |-> [p \in Patients |-> FALSE],
     op_done |-> [p \in Patients |-> <<>>]]

Construct ==
    /\ num_operating_theater = TheaterCapacity
    /\ now = 0
    /\ events = Fresh.events
    /\ pools = Fresh.pools
    /\ rnd_calls = 0
    /\ patient_id = 0
    /\ priority = None
    /\ priority_drawn = FALSE
    /\ patient_priority = Fresh.patient_priority
    /\ theater_busy_start = None
    /\ theater_blocked_times = <<>>
    /\ running = TRUE
    /\ log = Fresh.log
    /\ drawn = Fresh.drawn
    /\ op_done = Fresh.op_done
    /\ block_log = <<>>
    /\ queue_lengths = Fresh.queue_lengths
    /\ samples = <<>>

Inputs ==
    /\ num_prep \in NumPrepChoices
    /\ num_recovery \in NumRecoveryChoices
    /\ warm_up \in WarmUpChoices

\* no statistics function has been called
NoOutcome == [kind |-> "none"]
NoCall ==
    /\ data = <<>>
    /\ lag = 0
    /\ call = "none"
    /\ outcome = NoOutcome

\* the script of Assignment_2 is not what runs
NoScript ==
    /\ cfg = <<>>
    /\ pc = "loop"
    /\ error = "none"
    /\ times = <<>>
    /\ theater_busy_times = <<>>
    /\ time_snapshots = <<>>

FirstRun ==
    /\ replication = 1
    /\ prev_log = <<>>
    /\ prev_blocked = <<>>

Init ==
    /\ Inputs
    /\ interarrival_dist = InterarrivalTimes
    /\ prep_time_dist = PrepTimes
    /\ recovery_time_dist = RecoveryTimes
    /\ operation_times = OperationTimes
    /\ seed \in Seeds
    /\ until = Duration
    /\ interval = None
    /\ arrivals = MaxPatients
    /\ Construct
    /\ FirstRun
    /\ NoScript
    /\ NoCall

ReplayInit ==
    /\ Inputs
    /\ interarrival_dist = InterarrivalTimes
    /\ prep_time_dist = PrepTimes
    /\ recovery_time_dist = RecoveryTimes
    /\ operation_times = OperationTimes
    /\ seed \in Seeds
    /\ until = ReplayDuration
    /\ interval = None
    /\ arrivals = MaxPatients
    /\ Construct
    /\ FirstRun
    /\ NoScript
    /\ NoCall

\* run_simulation with the monitor process started
MonitorInit ==
    /\ Inputs
    /\ interarrival_dist = InterarrivalTimes
    /\ prep_time_dist = PrepTimes
    /\ recovery_time_dist = RecoveryTimes
    /\ operation_times = OperationTimes
    /\ seed \in MonitorSeeds
    /\ until = Duration
    /\ interval \in SampleIntervals
    /\ arrivals = MaxPatients
    /\ Construct
    /\ FirstRun
    /\ NoScript
    /\ NoCall

\* the statistics are called on their own: a hospital that is built and not run
DataChoices == UNION {[1 .. n -> SampleValues] : n \in 0 .. MaxLen}
StatsInit ==
    /\ num_prep = 1 /\ num_recovery = 1 /\ warm_up \in WarmUpChoices
    /\ interarrival_dist = InterarrivalTimes
    /\ prep_time_dist = PrepTimes
    /\ recovery_time_dist = RecoveryTimes
    /\ operation_times = OperationTimes
    /\ seed = None
    /\ until = Duration
    /\ interval = None
    /\ arrivals = MaxPatients
    /\ Construct
    /\ FirstRun
    /\ NoScript
    /\ data \in DataChoices
    /\ lag \in Lags
    /\ call = "none"
    /\ outcome = NoOutcome

LiveInit ==
    /\ \E r \in LiveRuns :
          /\ num_prep = r.num_prep
          /\ num_recovery = r.num_recovery
          /\ interarrival_dist = r.interarrival
          /\ prep_time_dist = r.prep
          /\ operation_times = r.operation
          /\ recovery_time_dist = r.recovery
    /\ warm_up \in WarmUpChoices
    /\ seed = None
    /\ until = None
    /\ interval = None
    /\ arrivals = MaxPatients
    /\ Construct
    /\ FirstRun
    /\ NoScript
    /\ NoCall

\* ------------------------------------------------------------- generator
\* the head of the while loop of generate_patients: the class of the NEXT patient
\* is fixed from env.now before the inter-arrival wait
DrawsPriority == Unbounded \/ T >= warm_up

NextPriority ==
    IF DrawsPriority
    THEN /\ IF seed = None
            THEN priority' \in {EMERGENCY, GENERAL}
            ELSE priority' = (IF PyRandomBelow(seed, rnd_calls) THEN EMERGENCY
                                                                ELSE GENERAL)
         /\ rnd_calls' = IF seed = None THEN rnd_calls ELSE rnd_calls + 1
         /\ priority_drawn' = TRUE
    ELSE /\ priority' = GENERAL
         /\ rnd_calls' = rnd_calls
         /\ priority_drawn' = FALSE

\* first resumption of generate_patients
GenInit ==
    /\ IsNext("GenInit")
    /\ NextPriority
    /\ \E d \in interarrival_dist :
         Step(Schedule(Tail(events), Event(T + d, NORMAL, "Arrive", None)))
    /\ UNCHANGED <<pools, config, patient_id, patient_priority, theater_busy_start,
                   theater_blocked_times, running, log, drawn, op_done, block_log,
                   replay, aside>>

\* the records free for a new patient: the next patient_id, or with no horizon
\* the least record not in use
FreeSlots == IF Unbounded THEN {p \in Patients : log[p] = <<>>}
                          ELSE {patient_id} \cap Patients
HasSlot == FreeSlots # {}
NewPid == CHOOSE p \in FreeSlots : \A q \in FreeSlots : p <= q

\* the generator goes on for ever; in a run with a horizon the model stops it
\* after `arrivals` arrivals
GoesOn == Unbounded \/ patient_id + 1 < arrivals

\* the inter-arrival timeout fires: spawn patient_lifecycle(patient_id, priority),
\* then the next turn of the loop.  With no horizon an arrival that finds every
\* record in use is left out (the gap to the next arrival is the sum of two).
Arrive ==
    /\ IsNext("Arrive")
    /\ IF HasSlot
       THEN /\ patient_priority' = [patient_priority EXCEPT ![NewPid] = priority]
            /\ drawn' = IF Unbounded THEN drawn
                        ELSE [drawn EXCEPT ![NewPid] = priority_drawn]
            /\ log' = Stamp(NewPid, "arrival")
       ELSE UNCHANGED <<patient_priority, drawn, log>>
    /\ patient_id' = IF Unbounded THEN patient_id ELSE patient_id + 1
    /\ NextPriority
    /\ \E d \in interarrival_dist :
         LET q == IF HasSlot
                  THEN Schedule(Tail(events), Event(T, URGENT, "LifeInit", NewPid))
                  ELSE Tail(events)
         IN  Step(IF GoesOn THEN Schedule(q, Event(T + d, NORMAL, "Arrive", None))
                            ELSE q)
    /\ UNCHANGED <<pools, config, theater_busy_start, theater_blocked_times,
                   running, op_done, block_log, replay, aside>>

\* ------------------------------------------------------ steps of a stage
\* `with pool.request(...) as request`: queue the request and try to serve the head
RequestStep(pool, prio) ==
    \E st \in {[pools[pool] EXCEPT !.queue = Enqueue(pool, @, Request(Pid, prio))]} :
        /\ pools' = [pools EXCEPT ![pool] = TriggerPut(pool, st)]
        /\ Step(GrantEvents(pool, st, Tail(events)))

\* leaving the with block: release the unit, then the process event of the stage
ReleaseStep(pool, endKind) ==
    /\ pools' = [pools EXCEPT ![pool] = DoGet(@, Pid)]
    /\ Step(Schedule(Schedule(Tail(events),
                              Event(T, NORMAL, ReleaseKind(pool), Pid)),
                     Event(T, NORMAL, endKind, Pid)))

\* the slip of a release event whose callback serves nobody
TriggerStepIdle(pool) == pools' = pools /\ Step(Tail(events))

\* the release event is processed: its callback _trigger_put serves the head
TriggerStep(pool) ==
    /\ pools' = [pools EXCEPT ![pool] = TriggerPut(pool, @)]
    /\ Step(GrantEvents(pool, pools[pool], Tail(events)))

\* env.process(...) of the next stage of patient_lifecycle
Spawn(kind) == Step(Schedule(Tail(events), Event(T, URGENT, kind, Pid)))

\* yield self.env.timeout(d)
Timeout(kind, d) == Step(Schedule(Tail(events), Event(T + d, NORMAL, kind, Pid)))

Untouched == UNCHANGED <<config, rnd_calls, patient_id, priority, priority_drawn,
                         patient_priority, running, drawn, replay, aside>>

\* ------------------------------------------------------ patient_lifecycle
\* the slip of starting the operation without yielding the preparation process
LifeInitNoYield ==
    /\ IsNext("LifeInit")
    /\ Step(Schedule(Schedule(Tail(events), Event(T, URGENT, "PrepInit", Pid)),
                     Event(T, URGENT, "OpInit", Pid)))
    /\ UNCHANGED <<pools, theater_busy_start, theater_blocked_times, log, op_done,
                   block_log>>
    /\ Untouched

LifeInit ==
    /\ IsNext("LifeInit")
    /\ Spawn("PrepInit")
    /\ UNCHANGED <<pools, theater_busy_start, theater_blocked_times, log, op_done,
                   block_log>>
    /\ Untouched

\* -------------------------------------------------- preparation_process
PrepInit ==
    /\ IsNext("PrepInit")
    /\ RequestStep("preparation", patient_priority[Pid])
    /\ log' = Stamp(Pid, "prep_request")
    /\ UNCHANGED <<theater_busy_start, theater_blocked_times, op_done, block_log>>
    /\ Untouched

PrepGrant ==
    /\ IsNext("PrepGrant")
    /\ \E d \in prep_time_dist : Timeout("PrepDone", d)
    /\ log' = Stamp(Pid, "prep_enter")
    /\ UNCHANGED <<pools, theater_busy_start, theater_blocked_times, op_done,
                   block_log>>
    /\ Untouched

\* the slip of a preparation unit kept after the service
PrepDoneNoRelease ==
    /\ IsNext("PrepDone")
    /\ Step(Schedule(Tail(events), Event(T, NORMAL, "PrepEnd", Pid)))
    /\ log' = Stamp(Pid, "prep_leave")
    /\ UNCHANGED <<pools, theater_busy_start, theater_blocked_times, op_done,
                   block_log>>
    /\ Untouched

PrepDone ==
    /\ IsNext("PrepDone")
    /\ ReleaseStep("preparation", "PrepEnd")
    /\ log' = Stamp(Pid, "prep_leave")
    /\ UNCHANGED <<theater_busy_start, theater_blocked_times, op_done, block_log>>
    /\ Untouched

PrepRelease ==
    /\ IsNext("PrepRelease")
    /\ TriggerStep("preparation")
    /\ UNCHANGED <<theater_busy_start, theater_blocked_times, log, op_done,
                   block_log>>
    /\ Untouched

PrepEnd ==
    /\ IsNext("PrepEnd")
    /\ Spawn("OpInit")
    /\ UNCHANGED <<pools, theater_busy_start, theater_blocked_times, log, op_done,
                   block_log>>
    /\ Untouched

\* ---------------------------------------------------- operation_process
OpInit ==
    /\ IsNext("OpInit")
    /\ RequestStep("operating_theater", GENERAL)
    /\ log' = Stamp(Pid, "op_request")
    /\ UNCHANGED <<theater_busy_start, theater_blocked_times, op_done, block_log>>
    /\ Untouched

OpGrant ==
    /\ IsNext("OpGrant")
    /\ theater_busy_start' = Clock
    /\ \E d \in operation_times : Timeout("OpDone", d)
    /\ log' = Stamp(Pid, "op_enter")
    /\ UNCHANGED <<pools, theater_blocked_times, op_done, block_log>>
    /\ Untouched

\* if len(self.recovery.queue) >= 1
RecoveryQueued == Len(pools["recovery"].queue) >= 1

\* the slip of a duration measured from the start of the run
BlockedTimeFromZero == Clock

\* self.env.now - self.theater_busy_start
BlockedTime == Clock - theater_busy_start

OpDone ==
    /\ IsNext("OpDone")
    /\ IF RecoveryQueued /\ ~Unbounded
       THEN /\ theater_blocked_times' = Append(theater_blocked_times, BlockedTime)
            /\ block_log' = Append(block_log, [pid |-> Pid, at |-> Clock])
       ELSE UNCHANGED <<theater_blocked_times, block_log>>
    /\ theater_busy_start' = None
    /\ ReleaseStep("operating_theater", "OpEnd")
    /\ log' = Stamp(Pid, "op_leave")
    /\ op_done' = IF Unbounded THEN op_done
                  ELSE [op_done EXCEPT ![Pid] =
                          Append(@, [at |-> Clock,
                                     in_use |-> Cardinality(pools["recovery"].users),
                                     waiting |-> Len(pools["recovery"].queue)])]
    /\ Untouched

OpRelease ==
    /\ IsNext("OpRelease")
    /\ TriggerStep("operating_theater")
    /\ UNCHANGED <<theater_busy_start, theater_blocked_times, log, op_done,
                   block_log>>
    /\ Untouched

OpEnd ==
    /\ IsNext("OpEnd")
    /\ Spawn("RecInit")
    /\ UNCHANGED <<pools, theater_busy_start, theater_blocked_times, log, op_done,
                   block_log>>
    /\ Untouched

\* ----------------------------------------------------- recovery_process
RecInit ==
    /\ IsNext("RecInit")
    /\ RequestStep("recovery", GENERAL)
    /\ log' = Stamp(Pid, "rec_request")
    /\ UNCHANGED <<theater_busy_start, theater_blocked_times, op_done, block_log>>
    /\ Untouched

RecGrant ==
    /\ IsNext("RecGrant")
    /\ \E d \in recovery_time_dist : Timeout("RecDone", d)
    /\ log' = Stamp(Pid, "rec_enter")
    /\ UNCHANGED <<pools, theater_busy_start, theater_blocked_times, op_done,
                   block_log>>
    /\ Untouched

\* the slip of a recovery request that is never released
RecDoneNoRelease ==
    /\ IsNext("RecDone")
    /\ Step(Schedule(Tail(events), Event(T, NORMAL, "RecEnd", Pid)))
    /\ log' = Stamp(Pid, "rec_leave")
    /\ UNCHANGED <<pools, theater_busy_start, theater_blocked_times, op_done,
                   block_log>>
    /\ Untouched

RecDone ==
    /\ IsNext("RecDone")
    /\ ReleaseStep("recovery", "RecEnd")
    /\ log' = Stamp(Pid, "rec_leave")
    /\ UNCHANGED <<theater_busy_start, theater_blocked_times, op_done, block_log>>
    /\ Untouched

RecRelease ==
    /\ IsNext("RecRelease")
    /\ TriggerStep("recovery")
    /\ UNCHANGED <<theater_busy_start, theater_blocked_times, log, op_done,
                   block_log>>
    /\ Untouched

\* patient_lifecycle returns after its last yield: the patient is discharged
RecEnd ==
    /\ IsNext("RecEnd")
    /\ Step(Tail(events))
    /\ log' = IF Unbounded THEN [log EXCEPT ![Pid] = <<>>]
                           ELSE Stamp(Pid, "discharge")
    /\ patient_priority' = IF Unbounded THEN [patient_priority EXCEPT ![Pid] = None]
                                        ELSE patient_priority
    /\ UNCHANGED <<pools, theater_busy_start, theater_blocked_times, op_done,
                   block_log, config, rnd_calls, patient_id, priority,
                   priority_drawn, running, drawn, replay, aside>>

\* ------------------------------------------------- Monitor.monitor_queues
\* len(self.hospital.<pool>.queue), with the patients in service added
QueueLengthWithUsers(pool) == Len(pools[pool].queue) + Cardinality(pools[pool].users)

\* len(self.hospital.<pool>.queue)
QueueLength(pool) == Len(pools[pool].queue)

\* history: the patients that have asked for a unit of the pool and were not given one
NotYetGranted(pool) ==
    LET asked == CASE pool = "preparation"       -> "prep_request"
                   [] pool = "operating_theater" -> "op_request"
                   [] pool = "recovery"          -> "rec_request"
        given == CASE pool = "preparation"       -> "prep_enter"
                   [] pool = "operating_theater" -> "op_enter"
                   [] pool = "recovery"          -> "rec_enter"
    IN  {p \in Patients :
            /\ \E i \in 1 .. Len(log[p]) : log[p][i].ev = asked
            /\ ~\E i \in 1 .. Len(log[p]) : log[p][i].ev = given
            /\ p \notin pools[pool].users}

\* one turn of the while loop: the three appends, then the timeout
Sample ==
    /\ IsNext("Sample")
    /\ queue_lengths' =
         [queue_lengths EXCEPT
            !["preparation"] = Append(@, QueueLength("preparation")),
            !["operation"]   = Append(@, QueueLength("operating_theater")),
            !["recovery"]    = Append(@, QueueLength("recovery"))]
    /\ samples' = Append(samples, [at |-> Clock,
                                   waiting |-> [r \in Pools |-> NotYetGranted(r)]])
    /\ Step(Schedule(Tail(events), Event(T + interval, NORMAL, "Sample", None)))
    /\ UNCHANGED <<pools, config, rnd_calls, patient_id, priority, priority_drawn,
                   patient_priority, theater_busy_start, theater_blocked_times,
                   running, log, drawn, op_done, block_log, replay, stats, script>>

\* ------------------------------------------------------- env.run(until)
\* the until event is reached: the clock is set to it and run returns
Stop ==
    /\ IsNext("Stop")
    /\ running' = FALSE
    /\ Step(Tail(events))
    /\ UNCHANGED <<pools, config, rnd_calls, patient_id, priority, priority_drawn,
                   patient_priority, theater_busy_start, theater_blocked_times,
                   log, drawn, op_done, block_log, replay, aside>>

\* ------------------------------------------------------- collect_samples
\* the next run_simulation call with the same config and seed: a new environment
\* and a new HospitalSimulation, random.seed(seed) again
Replay ==
    /\ ~running
    /\ replication = 1
    /\ replication' = 2
    /\ prev_log' = log
    /\ prev_blocked' = theater_blocked_times
    /\ UNCHANGED config
    /\ now' = 0
    /\ events' = Fresh.events
    /\ pools' = Fresh.pools
    /\ rnd_calls' = 0
    /\ patient_id' = 0
    /\ priority' = None
    /\ priority_drawn' = FALSE
    /\ patient_priority' = Fresh.patient_priority
    /\ theater_busy_start' = None
    /\ theater_blocked_times' = <<>>
    /\ running' = TRUE
    /\ log' = Fresh.log
    /\ drawn' = Fresh.drawn
    /\ op_done' = Fresh.op_done
    /\ block_log' = <<>>
    /\ queue_lengths' = Fresh.queue_lengths
    /\ samples' = <<>>
    /\ UNCHANGED <<stats, script>>

\* ------------------------------------------------------------ statistics
\* data[:stop] of Python, for stop = -lag (and -0 is 0)
SliceTo(s, stop) ==
    LET n == Len(s)
        e == IF stop < 0 THEN (IF n + stop < 0 THEN 0 ELSE n + stop)
                         ELSE (IF stop > n THEN n ELSE stop)
    IN  SubSeq(s, 1, e)

\* data[start:] of Python, for start >= 0
SliceFrom(s, start) ==
    LET n == Len(s)
        b == IF start > n THEN n ELSE start
    IN  SubSeq(s, b + 1, n)

RECURSIVE Sum(_)
Sum(s) == IF s = <<>> THEN 0 ELSE Head(s) + Sum(Tail(s))

\* the slip of `<` for `<=` in the guard
LagTooLargeStrict(n, l) == n < l

\* if len(data) <= lag
LagTooLarge(n, l) == n <= l

\* scipy.stats.pearsonr(x, y): both arguments must have the same length, at least 2
Pearsonr(x, y) ==
    IF Len(x) # Len(y) \/ Len(x) < 2
    THEN [kind |-> "ValueError", by |-> "pearsonr", x |-> x, y |-> y]
    ELSE [kind |-> "correlation", by |-> "pearsonr", x |-> x, y |-> y]

calculate_serial_correlation ==
    /\ call = "none"
    /\ call' = "calculate_serial_correlation"
    /\ outcome' = IF LagTooLarge(Len(data), lag)
                  THEN [kind |-> "ValueError", by |-> "lag", x |-> <<>>, y |-> <<>>]
                  ELSE Pearsonr(SliceTo(data, 0 - lag), SliceFrom(data, lag))
    /\ UNCHANGED <<data, lag, simulation>>

\* a float: not-a-number, or the fraction num / den
NaN == [nan |-> TRUE, num |-> 0, den |-> 0]
Float(num, den) == [nan |-> FALSE, num |-> num, den |-> den]

\* np.mean(data): NaN (and a warning) for no data
Mean(s) == IF Len(s) = 0 THEN NaN ELSE Float(Sum(s), Len(s))

\* np.std(data, ddof=1) squared: NaN (and a warning) when len(data) - 1 <= 0
Variance(s) ==
    LET n == Len(s)
    IN  IF n - 1 <= 0 THEN NaN
        ELSE Float(n * Sum([i \in 1 .. n |-> s[i] * s[i]]) - Sum(s) * Sum(s),
                   n * (n - 1))

\* stats.t.ppf((1 + confidence) / 2, n - 1) * (std / np.sqrt(n)): NaN for df <= 0
\* or a NaN std, else determined by df, the variance and n
Margin(s) ==
    IF Len(s) - 1 <= 0 \/ Variance(s).nan
    THEN [nan |-> TRUE, df |-> 0, variance |-> NaN, n |-> 0]
    ELSE [nan |-> FALSE, df |-> Len(s) - 1, variance |-> Variance(s), n |-> Len(s)]

\* mean - margin or mean + margin: NaN as soon as one operand is
Bound(mean, sign, margin) ==
    IF mean.nan \/ margin.nan
    THEN [nan |-> TRUE, mean |-> NaN, sign |-> 0, margin |-> Margin(<<>>)]
    ELSE [nan |-> FALSE, mean |-> mean, sign |-> sign, margin |-> margin]

calculate_confidence_intervals ==
    /\ call = "none"
    /\ call' = "calculate_confidence_intervals"
    /\ outcome' = [kind |-> "returned",
                   lower |-> Bound(Mean(data), -1, Margin(data)),
                   upper |-> Bound(Mean(data), 1, Margin(data))]
    /\ UNCHANGED <<data, lag, simulation>>

\* ------------------------------------ Monitor.calculate_blocking_probability
\* collect_samples: a run long enough for two blocked operations, then the call
BlockingInit ==
    /\ Inputs
    /\ interarrival_dist = InterarrivalTimes
    /\ prep_time_dist = PrepTimes
    /\ recovery_time_dist = RecoveryTimes
    /\ operation_times = OperationTimes
    /\ seed \in MonitorSeeds
    /\ until = Duration
    /\ interval = None
    /\ arrivals = MaxArrivals
    /\ Construct
    /\ FirstRun
    /\ NoScript
    /\ NoCall

\* env.run is not executing: it has returned, or it has not been called yet
Idle == ~running \/ events = Fresh.events

\* blocked_time / total_time if total_time > 0 else 0
calculate_blocking_probability ==
    /\ Idle
    /\ call = "none"
    /\ call' = "calculate_blocking_probability"
    /\ outcome' =
         LET total_time == now
             blocked_time == Sum(theater_blocked_times)
         IN  [kind |-> "returned", total_time |-> total_time,
              blocked_time |-> blocked_time,
              value |-> IF total_time > 0 THEN Float(blocked_time, total_time)
                                          ELSE Float(0, 1)]
    /\ UNCHANGED <<data, lag, simulation>>

\* ---------------------------------------------------------- Assignment_2
\* config.json: the keys the script reads, the values of a valid file, and the
\* files with one key missing or one value zero or negative
Keys == {"SIMULATION_TIME", "INTERARRIVAL_TIME", "PREPARATION_UNITS",
         "OPERATION_UNITS", "RECOVERY_UNITS", "PREPARATION_TIME",
         "OPERATION_TIME", "RECOVERY_TIME"}
UnitChoices == {1, 2}
PositiveMeans == {2}
NonPositive == {0, -2}
ValidConfigs ==
    [SIMULATION_TIME : {ScriptDuration}, INTERARRIVAL_TIME : PositiveMeans,
     PREPARATION_UNITS : UnitChoices, OPERATION_UNITS : UnitChoices,
     RECOVERY_UNITS : {1}, PREPARATION_TIME : PositiveMeans,
     OPERATION_TIME : PositiveMeans, RECOVERY_TIME : PositiveMeans]
Without(c, k) == [x \in Keys \ {k} |-> c[x]]
Configs ==
    ValidConfigs
       \cup {[c EXCEPT ![k] = b] : c \in ValidConfigs, k \in Keys, b \in NonPositive}
       \cup {Without(c, k) : c \in ValidConfigs, k \in Keys}

\* config['KEY'] finds every key
Loaded == Keys \subseteq DOMAIN cfg

\* self.interarrival_time, self.prep_time, self.op_time, self.recovery_time
interarrival_time == cfg["INTERARRIVAL_TIME"]
prep_time == cfg["PREPARATION_TIME"]
op_time == cfg["OPERATION_TIME"]
recovery_time == cfg["RECOVERY_TIME"]

\* random.expovariate(1 / mean): 1 / 0 raises ZeroDivisionError; the variate is
\* -log(1 - random()) / lambd, which has the sign of the mean
DrawnTimes == {1, 2}
NegativeTimes == {0 - 1}
DivisionByZero(mean) == mean = 0
expovariate(mean) == IF mean > 0 THEN DrawnTimes ELSE NegativeTimes

\* the process fails: its event, failed, is put on the heap
Fails(kind, p) == Step(Schedule(Tail(events), Event(T, NORMAL, kind, p)))

\* what no step of the running script writes
ScriptUntouched ==
    UNCHANGED <<config, rnd_calls, priority, priority_drawn, patient_priority,
                theater_blocked_times, drawn, op_done, block_log, replay, samples,
                stats, cfg, pc>>

\* lines 131-140 have run: config.json is read and each key looked up, a missing
\* key has raised KeyError; no environment and no hospital exist yet
ScriptInit ==
    /\ cfg \in Configs
    /\ error = IF Loaded THEN "none" ELSE "KeyError"
    /\ pc = "init"
    /\ until = IF "SIMULATION_TIME" \in DOMAIN cfg THEN cfg["SIMULATION_TIME"]
                                                   ELSE None
    /\ num_prep = None
    /\ num_operating_theater = None
    /\ num_recovery = None
    /\ warm_up = None
    /\ interarrival_dist = {}
    /\ prep_time_dist = {}
    /\ recovery_time_dist = {}
    /\ operation_times = {}
    /\ seed = None
    /\ interval = None
    /\ arrivals = MaxPatients
    /\ now = 0
    /\ events = <<>>
    /\ pools = Fresh.pools
    /\ rnd_calls = 0
    /\ patient_id = 0
    /\ priority = None
    /\ priority_drawn = FALSE
    /\ patient_priority = Fresh.patient_priority
    /\ theater_busy_start = None
    /\ theater_blocked_times = <<>>
    /\ running = FALSE
    /\ log = Fresh.log
    /\ drawn = Fresh.drawn
    /\ op_done = Fresh.op_done
    /\ block_log = <<>>
    /\ queue_lengths = Fresh.queue_lengths
    /\ samples = <<>>
    /\ FirstRun
    /\ NoCall
    /\ times = [p \in Patients |-> <<>>]
    /\ theater_busy_times = <<>>
    /\ time_snapshots = <<>>

\* lines 143-157: simpy.Environment(), HospitalSimulation(...), whose
\* simpy.Resource(env, capacity) raises ValueError unless capacity > 0, and the
\* two env.process calls
Construct2 ==
    /\ pc = "init"
    /\ error = "none"
    /\ IF \/ cfg["PREPARATION_UNITS"] <= 0
          \/ cfg["OPERATION_UNITS"] <= 0
          \/ cfg["RECOVERY_UNITS"] <= 0
       THEN /\ error' = "ValueError"
            /\ UNCHANGED <<pc, num_prep, num_operating_theater, num_recovery, events>>
       ELSE /\ error' = error
            /\ pc' = "run"
            /\ num_prep' = cfg["PREPARATION_UNITS"]
            /\ num_operating_theater' = cfg["OPERATION_UNITS"]
            /\ num_recovery' = cfg["RECOVERY_UNITS"]
            /\ events' = <<Event(0, URGENT, "GenInit", None),
                           Event(0, URGENT, "Sample", None)>>
    /\ UNCHANGED <<now, pools, warm_up, interarrival_dist, prep_time_dist,
                   recovery_time_dist, operation_times, seed, until, interval,
                   arrivals, rnd_calls, patient_id, priority, priority_drawn, patient_priority,
                   theater_busy_start, theater_blocked_times, running, log, drawn,
                   op_done, block_log, replay, monitor, stats, cfg, times,
                   theater_busy_times, time_snapshots>>

\* line 160, env.run(until=SIMULATION_TIME): ValueError unless until > env.now,
\* else the until event is put on the heap and the loop starts
EnvRun ==
    /\ pc = "run"
    /\ error = "none"
    /\ IF until <= now
       THEN /\ error' = "ValueError"
            /\ UNCHANGED <<pc, running, events>>
       ELSE /\ error' = error
            /\ pc' = "loop"
            /\ running' = TRUE
            /\ events' = Schedule(events, Event(until, URGENT, "Stop", None))
    /\ UNCHANGED <<now, pools, config, rnd_calls, patient_id, priority,
                   priority_drawn, patient_priority, theater_busy_start,
                   theater_blocked_times, log, drawn, op_done, block_log, replay,
                   monitor, stats, cfg, times, theater_busy_times, time_snapshots>>

\* yield self.env.timeout(random.expovariate(1 / self.interarrival_time)):
\* env.timeout raises ValueError for a negative delay
NextArrival(q, kind) ==
    IF DivisionByZero(interarrival_time)
    THEN Step(Schedule(q, Event(T, NORMAL, "ZeroDivisionError", None)))
    ELSE \E d \in expovariate(interarrival_time) :
            IF d < 0
            THEN Step(Schedule(q, Event(T, NORMAL, "ValueError", None)))
            ELSE Step(Schedule(q, Event(T + d, NORMAL, kind, None)))

\* first resumption of generate_patients
GenInit2 ==
    /\ IsNext("GenInit")
    /\ NextArrival(Tail(events), "Arrive")
    /\ UNCHANGED <<pools, patient_id, theater_busy_start, running, log, queue_lengths,
                   error, times, theater_busy_times, time_snapshots>>
    /\ ScriptUntouched

\* the inter-arrival timeout fires: env.process(self.patient_lifecycle(patient_id)),
\* patient_id += 1 and the next turn of the loop; the model stops the generator
\* after MaxPatients arrivals
Arrive2 ==
    /\ IsNext("Arrive")
    /\ log' = Stamp(patient_id, "arrival")
    /\ patient_id' = patient_id + 1
    /\ \E q \in {Schedule(Tail(events), Event(T, URGENT, "LifeInit", patient_id))} :
          IF GoesOn THEN NextArrival(q, "Arrive") ELSE Step(q)
    /\ UNCHANGED <<pools, theater_busy_start, running, queue_lengths, error, times,
                   theater_busy_times, time_snapshots>>
    /\ ScriptUntouched

\* first resumption of patient_lifecycle: the three variates, then the
\* preparation process
LifeInit2 ==
    /\ IsNext("LifeInit")
    /\ IF \/ DivisionByZero(prep_time)
          \/ DivisionByZero(op_time)
          \/ DivisionByZero(recovery_time)
       THEN /\ Fails("ZeroDivisionError", Pid)
            /\ times' = times
       ELSE /\ \E a \in expovariate(prep_time), b \in expovariate(op_time),
                  c \in expovariate(recovery_time) :
                  times' = [times EXCEPT ![Pid] =
                              [preparation_time |-> a, operation_time |-> b,
                               recovery_stage_time |-> c]]
            /\ Spawn("PrepInit")
    /\ UNCHANGED <<pools, patient_id, theater_busy_start, running, log, queue_lengths,
                   error, theater_busy_times, time_snapshots>>
    /\ ScriptUntouched

\* with self.preparation.request() as request: a plain Resource
PrepInit2 ==
    /\ IsNext("PrepInit")
    /\ RequestStep("preparation", GENERAL)
    /\ log' = Stamp(Pid, "prep_request")
    /\ UNCHANGED <<patient_id, theater_busy_start, running, queue_lengths, error,
                   times, theater_busy_times, time_snapshots>>
    /\ ScriptUntouched

\* yield self.env.timeout(d) inside the with block of a stage: a negative delay
\* raises ValueError, the with block releases the unit and the stage process fails
StageTimeout(pool, kind, d) ==
    IF d < 0 THEN ReleaseStep(pool, "StageFailed")
             ELSE pools' = pools /\ Timeout(kind, d)

PrepGrant2 ==
    /\ IsNext("PrepGrant")
    /\ StageTimeout("preparation", "PrepDone", times[Pid].preparation_time)
    /\ log' = Stamp(Pid, "prep_enter")
    /\ UNCHANGED <<patient_id, theater_busy_start, running, queue_lengths, error,
                   times, theater_busy_times, time_snapshots>>
    /\ ScriptUntouched

\* theater_busy: if self.theater_busy_start is None
theater_busy == IF theater_busy_start = None THEN Clock ELSE theater_busy_start

\* the request of operation_process is granted
OpGrant2 ==
    /\ IsNext("OpGrant")
    /\ theater_busy_start' = theater_busy
    /\ StageTimeout("operating_theater", "OpDone", times[Pid].operation_time)
    /\ log' = Stamp(Pid, "op_enter")
    /\ UNCHANGED <<patient_id, running, queue_lengths, error, times,
                   theater_busy_times, time_snapshots>>
    /\ ScriptUntouched

\* theater_idle: if self.theater_busy_start is not None
theater_idle ==
    IF theater_busy_start # None
    THEN /\ theater_busy_times' = Append(theater_busy_times, Clock - theater_busy_start)
         /\ theater_busy_start' = None
    ELSE UNCHANGED <<theater_busy_times, theater_busy_start>>

\* the operation timeout fires: theater_idle, then the with block ends
OpDone2 ==
    /\ IsNext("OpDone")
    /\ theater_idle
    /\ ReleaseStep("operating_theater", "OpEnd")
    /\ log' = Stamp(Pid, "op_leave")
    /\ UNCHANGED <<patient_id, running, queue_lengths, error, times, time_snapshots>>
    /\ ScriptUntouched

RecGrant2 ==
    /\ IsNext("RecGrant")
    /\ StageTimeout("recovery", "RecDone", times[Pid].recovery_stage_time)
    /\ log' = Stamp(Pid, "rec_enter")
    /\ UNCHANGED <<patient_id, theater_busy_start, running, queue_lengths, error,
                   times, theater_busy_times, time_snapshots>>
    /\ ScriptUntouched

\* one turn of the while loop of Assignment_2's monitor_queues
Sample2 ==
    /\ IsNext("Sample")
    /\ time_snapshots' = Append(time_snapshots, Clock)
    /\ queue_lengths' =
         [queue_lengths EXCEPT
            !["preparation"] = Append(@, QueueLength("preparation")),
            !["operation"]   = Append(@, QueueLength("operating_theater")),
            !["recovery"]    = Append(@, QueueLength("recovery"))]
    /\ Step(Schedule(Tail(events), Event(T + SnapshotInterval, NORMAL, "Sample", None)))
    /\ UNCHANGED <<pools, patient_id, theater_busy_start, running, log, error, times,
                   theater_busy_times>>
    /\ ScriptUntouched

\* the failed event of a stage process: the exception is thrown into
\* patient_lifecycle at its yield, which does not catch it and fails too
StageFailed ==
    /\ IsNext("StageFailed")
    /\ Fails("ValueError", Pid)
    /\ UNCHANGED <<pools, patient_id, theater_busy_start, running, log, queue_lengths,
                   error, times, theater_busy_times, time_snapshots>>
    /\ ScriptUntouched

\* Environment.step pops a failed event that nobody handles and raises its
\* exception out of env.run
Unhandled ==
    /\ \E exc \in {"ZeroDivisionError", "ValueError"} :
          /\ IsNext(exc)
          /\ error' = exc
    /\ running' = FALSE
    /\ Step(Tail(events))
    /\ UNCHANGED <<pools, patient_id, theater_busy_start, log, queue_lengths, times,
                   theater_busy_times, time_snapshots>>
    /\ ScriptUntouched

ScriptNext ==
    \/ Construct2
    \/ EnvRun
    \/ GenInit2
    \/ Arrive2
    \/ LifeInit2
    \/ PrepInit2
    \/ PrepGrant2
    \/ PrepDone
    \/ PrepRelease
    \/ PrepEnd
    \/ OpInit
    \/ OpGrant2
    \/ OpDone2
    \/ OpRelease
    \/ OpEnd
    \/ RecInit
    \/ RecGrant2
    \/ RecDone
    \/ RecRelease
    \/ RecEnd
    \/ Sample2
    \/ StageFailed
    \/ Unhandled
    \/ Stop

ScriptSpec == ScriptInit /\ [][ScriptNext]_vars

Next ==
    \/ GenInit
    \/ Arrive
    \/ LifeInit
    \/ PrepInit
    \/ PrepGrant
    \/ PrepDone
    \/ PrepRelease
    \/ PrepEnd
    \/ OpInit
    \/ OpGrant
    \/ OpDone
    \/ OpRelease
    \/ OpEnd
    \/ RecInit
    \/ RecGrant
    \/ RecDone
    \/ RecRelease
    \/ RecEnd
    \/ Stop

ReplayNext ==
    \/ Next
    \/ Replay

LiveNext ==
    \/ GenInit
    \/ Arrive
    \/ LifeInit
    \/ PrepInit
    \/ PrepGrant
    \/ PrepDone
    \/ PrepRelease
    \/ PrepEnd
    \/ OpInit
    \/ OpGrant
    \/ OpDone
    \/ OpRelease
    \/ OpEnd
    \/ RecInit
    \/ RecGrant
    \/ RecDone
    \/ RecRelease
    \/ RecEnd

Spec == Init /\ [][Next]_vars

ReplaySpec == ReplayInit /\ [][ReplayNext]_vars
MonitorNext == Next \/ Sample
StatsNext == calculate_serial_correlation \/ calculate_confidence_intervals
StatsSpec == StatsInit /\ [][StatsNext]_vars
MonitorSpec == MonitorInit /\ [][MonitorNext]_vars
BlockingNext == Next \/ calculate_blocking_probability
BlockingSpec == BlockingInit /\ [][BlockingNext]_vars

\* env.run() keeps calling step() while the heap is not empty
LiveSpec == LiveInit /\ [][LiveNext]_vars /\ WF_vars(LiveNext)

\* ------------------------------------------------------ reading the log
Has(p, what) == \E i \in 1 .. Len(log[p]) : log[p][i].ev = what
At(p, what) == log[p][CHOOSE i \in 1 .. Len(log[p]) : log[p][i].ev = what].at

InUse(pool) == Cardinality(pools[pool].users)
Waiting(pool) == Len(pools[pool].queue)

\* p has been given a recovery unit (it is put into users at the grant)
GotRecovery(p) == p \in pools["recovery"].users \/ Has(p, "rec_enter")

\* the entries of theater_blocked_times that patient p appended
EntriesOf(p) == {i \in 1 .. Len(block_log) : block_log[i].pid = p}

\* ---------------------------------------------------------------- claims

\* C1: in every reachable state each pool has 0 <= in_use <= capacity (num_prep
\* preparation units, one theater, num_recovery recovery units), and with one
\* preparation unit a patient enters preparation only at or after the instant the
\* patient before it has left preparation.
C1_PoolsWithinCapacity ==
    /\ InUse("preparation") \in 0 .. num_prep
    /\ InUse("operating_theater") \in 0 .. 1
    /\ InUse("recovery") \in 0 .. num_recovery
    /\ num_prep = 1 =>
         \A q \in Patients : Has(q, "prep_enter") =>
            \E at \in {At(q, "prep_enter")} :
               \A p \in Patients \ {q} :
                  (Has(p, "prep_enter") /\ At(p, "prep_enter") <= at)
                  => (Has(p, "prep_leave") /\ At(p, "prep_leave") <= at)

\* one preparation unit, q asked for it while p was in preparation, and q entered
\* once p had left
C1_Witness ==
    /\ num_prep = 1
    /\ \E p, q \in Patients :
         /\ p # q
         /\ Has(p, "prep_leave") /\ Has(q, "prep_enter")
         /\ At(p, "prep_enter") <= At(q, "prep_request")
         /\ At(q, "prep_request") < At(p, "prep_leave")
         /\ At(p, "prep_leave") <= At(q, "prep_enter")

\* C2: a patient whose operation has completed and who has not been granted a
\* recovery unit still holds the theater, and no other patient is in operation
\* having entered it since.
C2_TheaterHeldUntilRecovery ==
    \A p \in Patients :
       (Has(p, "op_leave") /\ ~GotRecovery(p)) =>
          /\ p \in pools["operating_theater"].users
          /\ \A q \in Patients \ {p} :
                Has(q, "op_enter") => At(q, "op_enter") < At(p, "op_leave")

\* C3: a patient whose operation has completed appended exactly one entry to
\* theater_blocked_times if the recovery pool had in_use = capacity at that instant
\* and none if it had a free unit; nobody appends more than one.
C3_EntryIffRecoveryFull ==
    \A p \in Patients :
       /\ Cardinality(EntriesOf(p)) <= 1
       /\ op_done[p] # <<>> =>
             (Cardinality(EntriesOf(p)) = 1 <=> op_done[p][1].in_use = num_recovery)

\* C4: the duration recorded for a blocked patient that has been given a recovery
\* unit is (time the recovery unit was granted) - (time its operation completed).
C4_DurationIsWaitForRecovery ==
    \A i \in 1 .. Len(block_log) :
       LET p == block_log[i].pid
       IN  Has(p, "rec_enter") =>
              theater_blocked_times[i] = At(p, "rec_enter") - At(p, "op_leave")

\* C5: every entry of theater_blocked_times is >= 0 and was appended at an
\* operation-completion instant at which the recovery pool had in_use = capacity.
C5_EntriesAtFullRecovery ==
    /\ Len(block_log) = Len(theater_blocked_times)
    /\ \A i \in 1 .. Len(block_log) :
          LET p == block_log[i].pid
          IN  /\ theater_blocked_times[i] >= 0
              /\ op_done[p] # <<>>
              /\ op_done[p][1].at = block_log[i].at
              /\ op_done[p][1].in_use = num_recovery

\* C6: a preparation unit goes to the waiter with the lowest priority value, and
\* among waiters of that priority to the one that asked first; and a patient that
\* holds a preparation unit loses it only by finishing its own preparation.
PrepUsers == pools["preparation"].users
PrepQueue == pools["preparation"].queue

C6_PriorityThenFifo ==
    [][\A p \in Patients :
          /\ (p \in PrepUsers' /\ p \notin PrepUsers) =>
                \A i \in 1 .. Len(PrepQueue') :
                   \/ patient_priority[p] < PrepQueue'[i].priority
                   \/ /\ patient_priority[p] = PrepQueue'[i].priority
                      /\ At(p, "prep_request")' <= PrepQueue'[i].time
          /\ (p \in PrepUsers /\ p \notin PrepUsers') =>
                (IsNext("PrepDone") /\ Pid = p)
      ]_vars

\* an emergency patient holds a preparation unit while a general patient that
\* asked before it is still waiting
C6_Witness ==
    \E p \in PrepUsers : \E i \in 1 .. Len(PrepQueue) :
       /\ patient_priority[p] = EMERGENCY
       /\ PrepQueue[i].priority = GENERAL
       /\ PrepQueue[i].time < At(p, "prep_request")

\* C7: every patient's stage events come in the order arrival, preparation
\* (request, enter, leave), operation (request, enter, leave), recovery (request,
\* enter, leave), discharge, none left out or repeated, at non-decreasing times.
StageOrder == <<"arrival", "prep_request", "prep_enter", "prep_leave",
                "op_request", "op_enter", "op_leave",
                "rec_request", "rec_enter", "rec_leave", "discharge">>

C7_StagesInOrder ==
    \A p \in Patients :
       /\ Len(log[p]) <= Len(StageOrder)
       /\ \A i \in 1 .. Len(log[p]) :
             /\ log[p][i].ev = StageOrder[i]
             /\ i > 1 => log[p][i - 1].at <= log[p][i].at

\* a patient has been discharged after waiting for the theater
C7_Witness ==
    \E p \in Patients :
       /\ Has(p, "discharge")
       /\ At(p, "op_request") < At(p, "op_enter")

\* C8: a patient that arrives before warm_up is general and its class was not
\* drawn; a patient that arrives at or after warm_up has its class drawn.
C8_ClassFromArrivalInstant ==
    \A p \in Patients :
       Has(p, "arrival") =>
          /\ At(p, "arrival") < warm_up =>
                (patient_priority[p] = GENERAL /\ ~drawn[p])
          /\ At(p, "arrival") >= warm_up => drawn[p]

\* C10: the second of two replications with the same configuration and seed ends
\* with the same stage times for every patient and the same blocking entries.
C10_SameSeedSameRun ==
    (replication = 2 /\ ~running) =>
       (log = prev_log /\ theater_blocked_times = prev_blocked)

\* ------------------------------------------------------- with no horizon
LivePatients == 0 .. (MaxSlots - 1)
WaitingFor(pool, p) ==
    \E i \in 1 .. Len(pools[pool].queue) : pools[pool].queue[i].pid = p
Holding(pool, p) == p \in pools[pool].users
InHospital(p) == log[p] # <<>>

WaitingAnywhere(p) == \E r \in Pools : WaitingFor(r, p)

\* C9: with no horizon, every patient waiting for a unit of any pool is eventually
\* discharged (and so granted every unit on its way), a general patient waiting
\* for preparation while emergency patients keep arriving included.
C9_EveryWaiterServed ==
    \A p \in LivePatients : WaitingAnywhere(p) ~> ~InHospital(p)

\* the waits that no later patient can overtake
WaitingInTurn(p) ==
    \/ WaitingFor("operating_theater", p)
    \/ WaitingFor("recovery", p)
    \/ WaitingFor("preparation", p) /\ patient_priority[p] = EMERGENCY
    \/ Holding("preparation", p)

\* C9 as amended: with no horizon, every patient waiting for the theater or for a
\* recovery unit, every emergency patient waiting for a preparation unit and
\* every patient holding a preparation unit is eventually discharged (and so
\* granted every unit on its way).
C9_WaiterServedUnlessOvertaken ==
    \A p \in LivePatients : WaitingInTurn(p) ~> ~InHospital(p)

\* an emergency patient and a general patient wait for a preparation unit
C9_Witness ==
    \E p, q \in LivePatients :
       /\ WaitingFor("preparation", p) /\ patient_priority[p] = EMERGENCY
       /\ WaitingFor("preparation", q) /\ patient_priority[q] = GENERAL

\* ------------------------------------------------------- env.run(until)
Pending == {events[i] : i \in 1 .. Len(events)}

\* C11: when run(until = D) has returned, the clock is D and every event still
\* pending has a time greater than D (every event with a time up to D was
\* executed).
C11_RunsEventsUpToHorizon ==
    ~running => (now = until /\ \A e \in Pending : e.time > until)

\* C11 as amended: run(until = D) executes the pending events in non-decreasing
\* time order, every one whose time is less than D and none whose time is D or
\* more; the clock never decreases, never exceeds D and is D when run returns.
C11_RunsEventsBeforeHorizon ==
    [][/\ now <= now' /\ now' <= until
       /\ \A e \in Pending : T <= e.time
       /\ now' = T
       /\ running' => T < until
       /\ ~running' => (now' = until /\ \A e \in Pending : e.time >= until)]_vars

\* run has returned at D, a patient was served, and an event due at D is pending
C11_Witness ==
    /\ ~running
    /\ now = until
    /\ \E e \in Pending : e.time = until
    /\ \E p \in Patients : Has(p, "op_enter")

\* ------------------------------------------------- Monitor.monitor_queues
\* C12: the k-th sample (k = 0, 1, ...) is taken at time k * interval and appends,
\* for each stage, the number of patients that have asked for a unit of its pool
\* and were not given one; the three series always have the same length.
C12_SamplesWaitingLists ==
    /\ \A stage \in Stages : Len(queue_lengths[stage]) = Len(samples)
    /\ \A k \in 1 .. Len(samples) :
          /\ samples[k].at = (k - 1) * interval
          /\ queue_lengths["preparation"][k] =
                Cardinality(samples[k].waiting["preparation"])
          /\ queue_lengths["operation"][k] =
                Cardinality(samples[k].waiting["operating_theater"])
          /\ queue_lengths["recovery"][k] =
                Cardinality(samples[k].waiting["recovery"])

\* the third sample or a later one found a patient waiting for preparation while
\* another was in preparation
C12_Witness ==
    /\ Len(samples) >= 3
    /\ queue_lengths["preparation"][Len(samples)] >= 1
    /\ samples[Len(samples)].at = now
    /\ InUse("preparation") >= 1

\* ------------------------------------------------------------ statistics
\* C13: calculate_confidence_intervals called with fewer than 2 data points ends
\* in an error and never returns a pair of bounds.
C13_TooFewDataIsAnError ==
    (call = "calculate_confidence_intervals" /\ Len(data) < 2)
       => outcome.kind \notin {"returned"}

\* C14: calculate_serial_correlation ends in the error of its lag check, with no
\* correlation computed, exactly when len(data) <= lag.
C14_LagErrorIffTooShort ==
    call = "calculate_serial_correlation" =>
       /\ Len(data) <= lag => (outcome.kind = "ValueError" /\ outcome.by = "lag")
       /\ Len(data) > lag => outcome.by # "lag"

\* data as long as the lag, which is at least 1: the lag check raised
C14_Witness ==
    /\ call = "calculate_serial_correlation"
    /\ lag >= 1
    /\ Len(data) = lag
    /\ outcome.by = "lag"

\* C19: for 0 <= lag < n, calculate_serial_correlation correlates the first
\* n - lag elements of data with the elements of data from position lag onward,
\* two sequences of length n - lag (for lag = 0 the whole sequence with itself).
C19_CorrelatesEqualLengths ==
    (call = "calculate_serial_correlation" /\ 0 <= lag /\ lag < Len(data)) =>
       /\ outcome.by = "pearsonr"
       /\ outcome.x = SubSeq(data, 1, Len(data) - lag)
       /\ outcome.y = SubSeq(data, lag + 1, Len(data))
       /\ Len(outcome.x) = Len(data) - lag
       /\ Len(outcome.y) = Len(data) - lag

ReleasePending(pool) == \E e \in Pending : e.kind = ReleaseKind(pool)

C17_FifoWhateverClass ==
    [][\A p \in Patients :
          /\ (Holding("operating_theater", p)' /\ ~Holding("operating_theater", p)) =>
                \A i \in 1 .. Len(pools["operating_theater"].queue') :
                   At(p, "op_request")' <= pools["operating_theater"].queue'[i].time
          /\ (Holding("recovery", p)' /\ ~Holding("recovery", p)) =>
                \A i \in 1 .. Len(pools["recovery"].queue') :
                   At(p, "rec_request")' <= pools["recovery"].queue'[i].time
      ]_vars

\* a general patient has just been given the theater it waited for while an
\* emergency patient that asked later is still waiting
C17_Witness ==
    \E p \in pools["operating_theater"].users :
       \E i \in 1 .. Len(pools["operating_theater"].queue) :
          /\ patient_priority[p] = GENERAL
          /\ patient_priority[pools["operating_theater"].queue[i].pid] = EMERGENCY
          /\ ~Has(p, "op_enter")
          /\ At(p, "op_request") < pools["operating_theater"].queue[i].time

\* C18: no patient waiting for or holding the theater holds a preparation unit.
C18_PrepReleasedBeforeTheater ==
    \A p \in Patients :
       (WaitingFor("operating_theater", p) \/ Holding("operating_theater", p)
           \/ Has(p, "op_request"))
          => ~Holding("preparation", p)

\* one preparation unit: a patient waits for the busy theater while the next
\* patient is in preparation
C18_Witness ==
    /\ num_prep = 1
    /\ \E p, q \in Patients :
          /\ WaitingFor("operating_theater", p)
          /\ Holding("preparation", q)
          /\ Has(q, "prep_enter")

\* ---------------------------------------------------------- Assignment_2
\* config.json lacks a key or holds a value that is not positive
Invalid == \/ ~Loaded
           \/ \E k \in DOMAIN cfg : cfg[k] <= 0

\* C15: with a missing or invalid configuration field the clock stays at 0 and no
\* patient is created, and a run that fails has failed at 0 with no patient.
C15_InvalidConfigFailsAtZero ==
    (Invalid \/ error # "none") => (now = 0 /\ patient_id = 0)

\* the patients in operation: between theater_busy and theater_idle of their
\* operation_process
InOperation == {p \in Patients : Has(p, "op_enter") /\ ~Has(p, "op_leave")}

\* the instants of the run so far at which p was in operation
OperatedAt(p) ==
    IF ~Has(p, "op_enter") THEN {}
    ELSE {t \in 0 .. (now - 1) :
            /\ At(p, "op_enter") <= t
            /\ Has(p, "op_leave") => t < At(p, "op_leave")}

\* the total time during which at least one patient occupied the theater
Occupied == Cardinality(UNION {OperatedAt(p) : p \in Patients})

\* the busy period that is open
OpenPeriod == IF theater_busy_start = None THEN 0 ELSE now - theater_busy_start

\* C20: in a run of a valid configuration, whenever a patient is in operation
\* theater_busy_start is set, and the closed busy periods plus the open one add up
\* to the occupied time.
C20_BusyTimesAreOccupiedTime ==
    ~Invalid =>
       /\ InOperation # {} => theater_busy_start # None
       /\ Sum(theater_busy_times) + OpenPeriod = Occupied

\* ------------------------------------------------- blocking probability
\* the simulated time an entry of theater_blocked_times covers: the instants
\* from the append back over its duration
Covered(i) == {t \in 0 .. now :
                  block_log[i].at - theater_blocked_times[i] <= t /\ t < block_log[i].at}

\* C21: the recorded durations are not negative, cover instants between 0 and
\* env.now and do not overlap, their sum does not exceed env.now, and the value
\* calculate_blocking_probability returns lies in [0, 1] and is 0 for env.now = 0.
C21_BlockingProbabilityInUnitInterval ==
    /\ \A i \in 1 .. Len(theater_blocked_times) :
          /\ theater_blocked_times[i] >= 0
          /\ block_log[i].at - theater_blocked_times[i] >= 0
          /\ block_log[i].at <= now
          /\ \A j \in 1 .. Len(theater_blocked_times) :
                i # j => Covered(i) \cap Covered(j) = {}
    /\ Sum(theater_blocked_times) <= now
    /\ call = "calculate_blocking_probability" =>
          /\ ~outcome.value.nan
          /\ outcome.value.den > 0
          /\ 0 <= outcome.value.num
          /\ outcome.value.num <= outcome.value.den
          /\ outcome.total_time = 0 => outcome.value.num = 0

\* the call after a run in which two operations were recorded as blocked
C21_Witness ==
    /\ call = "calculate_blocking_probability"
    /\ ~running
    /\ Len(theater_blocked_times) >= 2
    /\ outcome.value.num > 0

====
